---- MODULE Spec2Model ----
(***************************************************************************)
(* Hangman API: the game store (config/db.js), the session credential      *)
(* (config/jwt.js), the authentication middleware (middleware/auth.js),    *)
(* the request validation (middleware/validation.js, schemas) and the game *)
(* controller (controllers/gameController.js), as a state machine.         *)
(*                                                                         *)
(* A request to a protected route runs in two steps separated by database  *)
(* I/O: authenticateToken loads the game document (req.game), and later    *)
(* the controller handler resolves the request against that loaded         *)
(* document and writes to the store.  Other requests may run in between.   *)
(***************************************************************************)
EXTENDS Integers, Sequences, FiniteSets, Bags, TLC

VARIABLES
    games,      \* the 'games' collection: game id -> stored document
    nextId,     \* the next ObjectId insertOne will hand out
    reqs,       \* the bag of requests that passed authenticateToken and
                \* wait for their handler: each holds req.game as loaded
    last,       \* the exchange the step just taken completed (request,
                \* response, db functions called), NoExchange if none
    overlaps    \* how often a request was loaded while another was waiting

vars == <<games, nextId, reqs, last, overlaps>>

----------------------------------------------------------------------------
(* Bounds *)

\* the ObjectIds insertOne hands out in one behaviour, in this order
GameIds == {1}

\* number of requests to protected routes that may be in flight together
MaxReqs == 2

\* number of times a request may be loaded while another one is in flight
MaxOverlaps == 1

\* number of letters occurring in no answer that clients may submit
MaxFillers == 6

----------------------------------------------------------------------------
(* Characters and strings.  A string is a sequence of one-character strings *)

LowerChars ==
    <<"a","b","c","d","e","f","g","h","i","j","k","l","m",
      "n","o","p","q","r","s","t","u","v","w","x","y","z">>

UpperChars ==
    <<"A","B","C","D","E","F","G","H","I","J","K","L","M",
      "N","O","P","Q","R","S","T","U","V","W","X","Y","Z">>

Range(s) == { s[i] : i \in DOMAIN s }

\* String.prototype.toLowerCase on one character
ToLowerCase(c) ==
    IF \E i \in DOMAIN UpperChars : UpperChars[i] = c
    THEN LowerChars[CHOOSE i \in DOMAIN UpperChars : UpperChars[i] = c]
    ELSE c

\* the words collection: category -> words; 'cities' has no word
WordsOf(category) ==
    CASE category = "movies" -> { <<"A","b","-","a">> }
      [] category = "sports" -> { <<"-">> }
      [] OTHER -> {}

\* levels a create request may carry, and level.toLowerCase()
Levels == {"Movies", "Sports", "Cities"}

LevelToLowerCase(level) ==
    CASE level = "Movies" -> "movies"
      [] level = "Sports" -> "sports"
      [] level = "Cities" -> "cities"

\* letters that occur in no answer of the words collection
FillerChars == <<"t","u","v","w","x","y","z","q">>

\* lower-cased letters of the answers of the words collection
AnswerLetters == {"a", "b"}


----------------------------------------------------------------------------
(* config/db.js: the word source and the game store *)

\* the JavaScript values a word document can give for 'word': a string,
\* undefined (a document without the field), and null (no document)
JsNull == [ type |-> "null" ]

JsUndefined == [ type |-> "undefined" ]

JsString(chars) == [ type |-> "string", chars |-> chars ]

\* what getRandomWord resolves to when the category has no word
NoWord == JsNull

\* the values getRandomWord(category) may resolve to ($sample picks any one)
GetRandomWord(category) ==
    IF WordsOf(category) = {} THEN { NoWord }
    ELSE { JsString(w) : w \in WordsOf(category) }

\* insertOne: the collection with the new document under the fresh id
\* 24 * 60 * 60 * 1000: 24 hours in milliseconds
DayMs == 24 * 60 * 60 * 1000

\* createGame: { ...gameData, createdAt: new Date(), expiresAt: new
\* Date(Date.now() + 24h) }; createdAt is the first reading of the clock
\* and dateNow the second
Stamped(gameData, createdAt, dateNow) ==
    [ level |-> gameData.level,
      answer |-> gameData.answer,
      currentProgress |-> gameData.currentProgress,
      attempts |-> gameData.attempts,
      gameOver |-> gameData.gameOver,
      guessedLetters |-> gameData.guessedLetters,
      createdAt |-> createdAt,
      expiresAt |-> dateNow + DayMs ]

DbCreateGame(coll, id, gameData) ==
    [ g \in (DOMAIN coll) \cup {id} |-> IF g = id THEN gameData ELSE coll[g] ]

\* findOne({_id}): the document, or null when there is none
NoGame == [ absent |-> TRUE ]

\* a slip: when the _id matches nothing, any stored document is returned
DbGetGameById_AnyGame(coll, gameId) ==
    IF gameId \in DOMAIN coll THEN coll[gameId]
    ELSE IF DOMAIN coll # {} THEN coll[CHOOSE g \in DOMAIN coll : TRUE]
    ELSE NoGame

DbGetGameById(coll, gameId) ==
    IF gameId \in DOMAIN coll THEN coll[gameId] ELSE NoGame

\* a slip: the document is replaced by updateData (replaceOne in place of
\* updateOne with $set); the fields updateData lacks are gone
DbUpdateGame_Replace(coll, gameId, updateData) ==
    IF gameId \in DOMAIN coll
    THEN [ coll EXCEPT ![gameId] =
             [ currentProgress |-> updateData.currentProgress,
               attempts |-> updateData.attempts,
               gameOver |-> updateData.gameOver,
               guessedLetters |-> updateData.guessedLetters ] ]
    ELSE coll

\* a slip: the progress is saved by a write of its own that is not made
\* here; this write sets the three other fields
DbUpdateGame_KeepsProgress(coll, gameId, updateData) ==
    IF gameId \in DOMAIN coll
    THEN [ coll EXCEPT ![gameId] =
             [ @ EXCEPT !.attempts = updateData.attempts,
                        !.gameOver = updateData.gameOver,
                        !.guessedLetters = updateData.guessedLetters ] ]
    ELSE coll

\* a slip: the filter is missing, every document is updated
DbUpdateGame_Every(coll, gameId, updateData) ==
    [ g \in DOMAIN coll |->
        [ coll[g] EXCEPT !.currentProgress = updateData.currentProgress,
                         !.attempts = updateData.attempts,
                         !.gameOver = updateData.gameOver,
                         !.guessedLetters = updateData.guessedLetters ] ]

\* updateOne({_id}, {$set: updateData}): the four fields of updateData
\* replace those of the stored document; no document, no change
DbUpdateGame(coll, gameId, updateData) ==
    IF gameId \in DOMAIN coll
    THEN [ coll EXCEPT ![gameId] =
             [ @ EXCEPT !.currentProgress = updateData.currentProgress,
                        !.attempts = updateData.attempts,
                        !.gameOver = updateData.gameOver,
                        !.guessedLetters = updateData.guessedLetters ] ]
    ELSE coll

\* deleteOne({_id})
DbDeleteGame(coll, gameId) ==
    [ g \in (DOMAIN coll) \ {gameId} |-> coll[g] ]

----------------------------------------------------------------------------
(* config/jwt.js: the session credential *)

NoToken == [ gameId |-> 0, iat |-> 0, exp |-> 0, sig |-> "none" ]

\* process.env.JWT_SECRET, and any other secret
JwtSecret == "secret"

OtherSecret == "forged"

\* JWT_EXPIRY: '24h', in the seconds jsonwebtoken counts in
JwtExpiry == 86400

\* jwt.sign(payload, secret, {expiresIn}) at the time 'now' (seconds): the
\* payload with iat and exp, signed with the secret
JwtSign(gameId, secret, now) ==
    [ gameId |-> gameId, iat |-> now, exp |-> now + JwtExpiry,
      sig |-> secret ]

\* a string that is no JWT
MalformedToken == [ malformed |-> TRUE ]

\* a slip: a token is still taken at the second its exp names
JwtVerify_LateExpiry(token, secret, now) ==
    IF "sig" \notin DOMAIN token
    THEN [ ok |-> FALSE, error |-> "jwt malformed" ]
    ELSE IF token.sig # secret
    THEN [ ok |-> FALSE, error |-> "invalid signature" ]
    ELSE IF now > token.exp
    THEN [ ok |-> FALSE, error |-> "jwt expired" ]
    ELSE [ ok |-> TRUE,
           payload |-> [ gameId |-> token.gameId, iat |-> token.iat,
                         exp |-> token.exp ] ]

\* jwt.verify(token, secret) at the time 'now': the payload, or the error
\* thrown for a malformed token, a signature made with another secret, or
\* a token whose exp has been reached
JwtVerify(token, secret, now) ==
    IF "sig" \notin DOMAIN token
    THEN [ ok |-> FALSE, error |-> "jwt malformed" ]
    ELSE IF token.sig # secret
    THEN [ ok |-> FALSE, error |-> "invalid signature" ]
    ELSE IF now >= token.exp
    THEN [ ok |-> FALSE, error |-> "jwt expired" ]
    ELSE [ ok |-> TRUE,
           payload |-> [ gameId |-> token.gameId, iat |-> token.iat,
                         exp |-> token.exp ] ]

\* generateToken at the time 'now'
GenerateTokenAt(gameId, now) == JwtSign(gameId, JwtSecret, now)

\* a slip: the payload is read without the signature and exp being checked
\* (jwt.decode in place of jwt.verify)
VerifyTokenAt_Decode(token, now) ==
    IF "sig" \notin DOMAIN token
    THEN [ ok |-> FALSE, error |-> "Invalid or expired token" ]
    ELSE [ ok |-> TRUE,
           payload |-> [ gameId |-> token.gameId, iat |-> token.iat,
                         exp |-> token.exp ] ]

\* verifyToken at the time 'now': whatever jwt.verify throws is replaced by
\* one error
VerifyTokenAt(token, now) ==
    LET verified == JwtVerify(token, JwtSecret, now)
    IN  IF verified.ok THEN verified
        ELSE [ ok |-> FALSE, error |-> "Invalid or expired token" ]

\* outside the specification of the clock, every request is served at the
\* time 0
GenerateToken(gameId) == GenerateTokenAt(gameId, 0)

VerifyTokenOk(token) == VerifyTokenAt(token, 0).ok

----------------------------------------------------------------------------
(* schemas/gameSchemas.js: guessSchema *)

\* a slip: the letter is only required to be present
ValidLetter_NotEmpty(raw) == raw # ""

\* .length(1) and /^[a-zA-Z]$/
ValidLetter(raw) == raw \in Range(LowerChars) \cup Range(UpperChars)

\* a slip: the letter is passed on as it was sent
ParsedLetter_AsSent(raw) == raw

\* .transform(val => val.toLowerCase())
ParsedLetter(raw) == ToLowerCase(raw)

----------------------------------------------------------------------------
(* controllers/gameController.js: the pure parts *)

MaxAttempts == 6

PreserveChars == {" ", "-", ":", ",", ".", "'"}

\* a slip: only letters are hidden, any other character is shown
Mask_LettersOnly(answer) ==
    [ i \in 1..Len(answer) |->
        IF answer[i] \in Range(LowerChars) \cup Range(UpperChars)
        THEN "_" ELSE answer[i] ]

\* createGame: answer.split('').map(...).join('')
Mask(answer) ==
    [ i \in 1..Len(answer) |->
        IF answer[i] \in PreserveChars THEN answer[i] ELSE "_" ]

\* a slip: only a missing value is caught (answer == null), '' passes
IsFalsy_NoEmptyString(answer) == answer.type # "string"

\* createGame: if (!answer): null, undefined and '' are falsy
IsFalsy(answer) ==
    answer.type # "string" \/ answer.chars = <<>>

\* a slip: the game starts with the first attempt already spent
NewGameData_OneSpent(level, answer) ==
    [ level |-> level,
      answer |-> answer,
      currentProgress |-> Mask(answer),
      attempts |-> MaxAttempts - 1,
      gameOver |-> FALSE,
      guessedLetters |-> <<>> ]

\* createGame: gameData
NewGameData(level, answer) ==
    [ level |-> level,
      answer |-> answer,
      currentProgress |-> Mask(answer),
      attempts |-> MaxAttempts,
      gameOver |-> FALSE,
      guessedLetters |-> <<>> ]

\* a slip: the check for a finished game is missing
IsAlreadyOver_Never(game) == FALSE

\* a slip: only a lost game counts as over
IsAlreadyOver_LostOnly(game) == game.gameOver /\ game.attempts <= 0

\* updateGame: if (game.gameOver)
IsAlreadyOver(game) == game.gameOver

\* a slip: only the letter guessed last is compared
IsAlreadyGuessed_LastOnly(game, letter) ==
    /\ Len(game.guessedLetters) > 0
    /\ game.guessedLetters[Len(game.guessedLetters)] = letter

\* a slip: the letters of the answer are never taken as guessed
IsAlreadyGuessed_MissesOnly(game, letter) ==
    /\ letter \in Range(game.guessedLetters)
    /\ \A i \in 1..Len(game.answer) : ToLowerCase(game.answer[i]) # letter

\* a slip: the check for an earlier guess of the letter is missing
IsAlreadyGuessed_Never(game, letter) == FALSE

\* updateGame: game.guessedLetters?.includes(letter)
IsAlreadyGuessed(game, letter) == letter \in Range(game.guessedLetters)

\* updateGame: the loop over the positions of answer
IsCorrectGuess(answer, letter) ==
    \E i \in 1..Len(answer) : ToLowerCase(answer[i]) = letter

\* a slip: only the first occurrence of the letter is revealed
RevealLetter_FirstOnly(answer, currentProgress, letter) ==
    [ i \in 1..Len(answer) |->
        IF /\ ToLowerCase(answer[i]) = letter
           /\ \A j \in 1..(i - 1) : ToLowerCase(answer[j]) # letter
        THEN answer[i]
        ELSE currentProgress[i] ]

\* a slip: the progress is rebuilt from the mask for this letter alone, so
\* the letters revealed before are hidden again
RevealLetter_Resets(answer, currentProgress, letter) ==
    [ i \in 1..Len(answer) |->
        IF ToLowerCase(answer[i]) = letter THEN answer[i]
        ELSE Mask(answer)[i] ]

\* a slip: the guessed letter is written instead of the answer's character
RevealLetter_WritesGuess(answer, currentProgress, letter) ==
    [ i \in 1..Len(answer) |->
        IF ToLowerCase(answer[i]) = letter THEN letter
        ELSE currentProgress[i] ]

\* updateGame: answer.split('').map((char, index) => ...).join('')
RevealLetter(answer, currentProgress, letter) ==
    [ i \in 1..Len(answer) |->
        IF ToLowerCase(answer[i]) = letter THEN answer[i]
        ELSE currentProgress[i] ]

\* a slip: a wrong guess costs nothing
AttemptsAfter_Free(attempts, isCorrectGuess) == attempts

\* a slip: every guess costs an attempt
AttemptsAfter_Always(attempts, isCorrectGuess) == attempts - 1

\* updateGame: if (!isCorrectGuess) attempts -= 1
AttemptsAfter(attempts, isCorrectGuess) ==
    IF isCorrectGuess THEN attempts ELSE attempts - 1

\* a slip: a completed word does not end the game
IsGameOver_LossOnly(attempts, updatedProgress, answer) == attempts <= 0

\* a slip: the game ends one wrong guess too late
IsGameOver_BelowZero(attempts, updatedProgress, answer) ==
    attempts < 0 \/ updatedProgress = answer

\* updateGame: attempts <= 0 || updatedProgress === answer
IsGameOver(attempts, updatedProgress, answer) ==
    attempts <= 0 \/ updatedProgress = answer

\* a slip: the answer is not revealed when the game ends
FinalProgress_NoReveal(gameOver, updatedProgress, answer) == updatedProgress

\* updateGame: if (gameOver) updatedProgress = answer
FinalProgress(gameOver, updatedProgress, answer) ==
    IF gameOver THEN answer ELSE updatedProgress

\* a slip: every finished game counts as won
IsWon_AnyEnd(gameOver, attempts) == gameOver

\* updateGame: won: gameOver && attempts > 0
IsWon(gameOver, attempts) == gameOver /\ attempts > 0

\* updateGame: updateData
UpdateData(game, letter) ==
    LET isCorrectGuess == IsCorrectGuess(game.answer, letter)
        updatedProgress ==
            RevealLetter(game.answer, game.currentProgress, letter)
        attempts == AttemptsAfter(game.attempts, isCorrectGuess)
        gameOver == IsGameOver(attempts, updatedProgress, game.answer)
    IN  [ currentProgress |->
              FinalProgress(gameOver, updatedProgress, game.answer),
          attempts |-> attempts,
          gameOver |-> gameOver,
          guessedLetters |-> Append(game.guessedLetters, letter) ]

----------------------------------------------------------------------------
(* Requests and responses *)

InFlight == BagToSet(reqs)

NoExchange == [ kind |-> "none" ]

\* the req of a request that authenticateToken answered itself
NoReq == [ gameId |-> 0 ]

\* a response sent without a game in its body
Reply(kind, req, status, error, calls) ==
    [ kind |-> kind, req |-> req, status |-> status, error |-> error,
      calls |-> calls ]

\* a slip: the stored document is sent as it is
GameView_WholeDocument(game) == game

\* getGame: the game of the response body
GameView(game) ==
    [ level |-> game.level,
      attempts |-> game.attempts,
      currentProgress |-> game.currentProgress,
      gameOver |-> game.gameOver,
      guessedLetters |-> game.guessedLetters ]

\* createGame: the game of the response body
CreatedView(gameData) ==
    [ level |-> gameData.level,
      attempts |-> gameData.attempts,
      currentProgress |-> gameData.currentProgress,
      gameOver |-> gameData.gameOver ]

\* a slip: the loaded document is spread into the game of the response
GuessView_WithAnswer(game, updateData, isCorrectGuess, won) ==
    [ level |-> game.level,
      answer |-> game.answer,
      attempts |-> updateData.attempts,
      currentProgress |-> updateData.currentProgress,
      gameOver |-> updateData.gameOver,
      guessedLetters |-> updateData.guessedLetters,
      isCorrectGuess |-> isCorrectGuess,
      won |-> won ]

\* updateGame: the game of the response body
GuessView(game, updateData, isCorrectGuess, won) ==
    [ level |-> game.level,
      attempts |-> updateData.attempts,
      currentProgress |-> updateData.currentProgress,
      gameOver |-> updateData.gameOver,
      guessedLetters |-> updateData.guessedLetters,
      isCorrectGuess |-> isCorrectGuess,
      won |-> won ]

\* a response with a game in its body
ReplyGame(kind, req, status, game, calls) ==
    [ kind |-> kind, req |-> req, status |-> status, error |-> "",
      game |-> game, calls |-> calls ]

\* letters a client may put in a guess body: the letters of the answers,
\* the fillers used so far and the next unused filler, an upper-case
\* letter, and a body that is not a letter
UsedLetters ==
    UNION { Range(games[g].guessedLetters) : g \in DOMAIN games }
    \cup { req.body.letter : req \in InFlight }

NumUsedFillers ==
    Cardinality({ i \in DOMAIN FillerChars : FillerChars[i] \in UsedLetters })

GuessInputs ==
    AnswerLetters
    \cup { FillerChars[i] : i \in { j \in 1..MaxFillers : j <= NumUsedFillers + 1 } }
    \cup { "A", "1" }

\* tokens a client may present: none, the token issued for a game, and a
\* token for that game with a signature that does not verify
TokenInputs ==
    { NoToken }
    \cup { GenerateToken(g) : g \in 1..(nextId - 1) }
    \cup { JwtSign(g, OtherSecret, 0) : g \in 1..(nextId - 1) }

----------------------------------------------------------------------------
(* Init *)

Init ==
    /\ games = << >>
    /\ nextId = 1
    /\ reqs = EmptyBag
    /\ last = NoExchange
    /\ overlaps = 0

----------------------------------------------------------------------------
(* POST /api/v1/games: gameController.createGame *)

\* the handler once getRandomWord has resolved to the value 'word', with
\* the two readings of the clock the store's createGame makes; the exchange
\* records the word next to the request and the response
CreateGameAt(level, word, createdAt, dateNow) ==
    /\ IF IsFalsy(word)
       THEN /\ last' = [ kind |-> "create",
                         req |-> [ body |-> [ level |-> level ] ],
                         status |-> 404,
                         error |-> "No words found for level",
                         word |-> word,
                         calls |-> {"getRandomWord"} ]
            /\ UNCHANGED <<games, nextId>>
       ELSE LET gameData == NewGameData(level, word.chars)
            IN  /\ games' = DbCreateGame(games, nextId,
                               Stamped(gameData, createdAt, dateNow))
                /\ nextId' = nextId + 1
                /\ last' = [ kind |-> "create",
                             req |-> [ body |-> [ level |-> level ] ],
                             status |-> 201, error |-> "",
                             word |-> word,
                             token |-> GenerateToken(nextId),
                             game |-> CreatedView(gameData),
                             calls |-> {"getRandomWord", "createGame"} ]
    /\ UNCHANGED <<reqs, overlaps>>

\* outside the specification of the clock, every request is served at the
\* time 0
CreateGameWith(level, word) == CreateGameAt(level, word, 0, 0)

CreateGame(level) ==
    /\ nextId \in GameIds
    /\ \E word \in GetRandomWord(LevelToLowerCase(level)) :
         CreateGameWith(level, word)

----------------------------------------------------------------------------
(* middleware/auth.js: authenticateToken, for a request of the given kind. *)
(* The middleware is the same on the three protected routes: an exchange it *)
(* answers itself is recorded with kind "auth".                             *)

\* the request as authenticateToken sees it: the token of its authorization
\* header (the middleware is the same on every route it guards)
Presented(kind, token) == [ token |-> token ]

AuthenticateToken(kind, token, letter) ==
    /\ BagCardinality(reqs) < MaxReqs
    /\ IF token = NoToken
       THEN /\ last' = Reply("auth", Presented(kind, token), 401,
                             "Access token required", {})
            /\ UNCHANGED <<reqs, overlaps>>
       ELSE IF ~VerifyTokenOk(token)
       THEN /\ last' = Reply("auth", Presented(kind, token), 403,
                             "Invalid or expired token", {"verifyToken"})
            /\ UNCHANGED <<reqs, overlaps>>
       ELSE LET game == DbGetGameById(games, token.gameId)
            IN  IF game = NoGame
                THEN /\ last' = Reply("auth", Presented(kind, token), 404,
                                      "Game not found or expired",
                                      {"verifyToken", "getGameById"})
                     /\ UNCHANGED <<reqs, overlaps>>
                ELSE /\ overlaps' = IF reqs = EmptyBag THEN overlaps
                                    ELSE overlaps + 1
                     /\ overlaps' <= MaxOverlaps
                     /\ reqs' = reqs (+) SetToBag({
                                    [ kind |-> kind,
                                      token |-> token,
                                      sent |-> [ letter |-> letter ],
                                      body |-> [ letter |-> letter ],
                                      gameId |-> token.gameId,
                                      game |-> game ] })
                     /\ last' = NoExchange
    /\ UNCHANGED <<games, nextId>>

\* the request leaves the bag when its handler has run
Handled(req) == reqs (-) SetToBag({req})

----------------------------------------------------------------------------
(* GET /api/v1/games: gameController.getGame *)

GetGame(req) ==
    /\ req \in InFlight
    /\ req.kind = "get"
    /\ LET game == req.game
       IN  last' = ReplyGame("get", req, 200, GameView(game), {})
    /\ reqs' = Handled(req)
    /\ UNCHANGED <<games, nextId, overlaps>>

----------------------------------------------------------------------------
(* PATCH /api/v1/games: validate(guessSchema), gameController.updateGame *)

UpdateGame(req0) ==
    /\ req0 \in InFlight
    /\ req0.kind = "guess"
    /\ IF ~ValidLetter(req0.body.letter)
       THEN /\ last' = Reply("guess", req0, 400, "Validation failed", {})
            /\ UNCHANGED games
       ELSE
       LET letter == ParsedLetter(req0.body.letter)
           req == [ req0 EXCEPT !.body.letter = letter ]
           game == req.game
       IN
       IF IsAlreadyOver(game)
       THEN /\ last' = Reply("guess", req, 400, "Game is already over", {})
            /\ UNCHANGED games
       ELSE IF IsAlreadyGuessed(game, letter)
       THEN /\ last' = Reply("guess", req, 400, "Letter already guessed", {})
            /\ UNCHANGED games
       ELSE LET updateData == UpdateData(game, letter)
            IN  /\ games' = DbUpdateGame(games, req.gameId, updateData)
                /\ last' = ReplyGame("guess", req, 200,
                             GuessView(game, updateData,
                               IsCorrectGuess(game.answer, letter),
                               IsWon(updateData.gameOver,
                                     updateData.attempts)),
                             {"updateGame"})
    /\ reqs' = Handled(req0)
    /\ UNCHANGED <<nextId, overlaps>>

----------------------------------------------------------------------------
(* DELETE /api/v1/games: gameController.deleteGame *)

DeleteGame(req) ==
    /\ req \in InFlight
    /\ req.kind = "delete"
    /\ games' = DbDeleteGame(games, req.gameId)
    /\ last' = Reply("delete", req, 204, "", {"deleteGame"})
    /\ reqs' = Handled(req)
    /\ UNCHANGED <<nextId, overlaps>>

----------------------------------------------------------------------------
(* config/db.js: the TTL index on expiresAt removes an expired game *)

ExpireGame(g) ==
    /\ g \in DOMAIN games
    /\ games' = DbDeleteGame(games, g)
    /\ last' = NoExchange
    /\ UNCHANGED <<nextId, reqs, overlaps>>

----------------------------------------------------------------------------

\* the body of a guess request: any of GuessInputs when the token leads to
\* a game; the body of a request that authenticateToken rejects is not read
BodyInputs(token) ==
    IF VerifyTokenOk(token) /\ token.gameId \in DOMAIN games
    THEN GuessInputs ELSE { "a" }

Next ==
    \/ \E level \in Levels : CreateGame(level)
    \/ \E token \in TokenInputs :
         \/ AuthenticateToken("get", token, "")
         \/ AuthenticateToken("delete", token, "")
         \/ \E letter \in BodyInputs(token) :
              AuthenticateToken("guess", token, letter)
    \/ \E req \in InFlight : GetGame(req)
    \/ \E req \in InFlight : UpdateGame(req)
    \/ \E req \in InFlight : DeleteGame(req)
    \/ \E g \in DOMAIN games : ExpireGame(g)

Spec == Init /\ [][Next]_vars

----------------------------------------------------------------------------
(* createGame over any word collection: getRandomWord may resolve to null, *)
(* to undefined, or to any string over WordChars of at most MaxWordLen      *)
(* characters (the six preserved characters, letters of both cases, a      *)
(* digit and a punctuation mark that is not preserved).                    *)

MaxWordLen == 2

WordChars == {" ", "-", ":", ",", ".", "'", "A", "a", "7", "!"}

WordIds == {1, 2}

AnyWords ==
    {JsNull, JsUndefined} \cup
    { JsString(chars) :
        chars \in UNION { [1..n -> WordChars] : n \in 0..MaxWordLen } }

CreateAnyGame(level) ==
    /\ nextId \in WordIds
    /\ \E word \in AnyWords : CreateGameWith(level, word)

NextWords == CreateAnyGame("Movies")

SpecWords == Init /\ [][NextWords]_vars

----------------------------------------------------------------------------
(* Two games side by side: the clients create games of level Movies, guess *)
(* a letter the answer holds (in either case) or one it does not, send a   *)
(* body that is no letter, get and delete; the TTL index does not fire.    *)

GameLetters == {"a", "A", "t", "1", "ab", ""}

CreateMovieGame ==
    /\ nextId \in WordIds
    /\ \E word \in GetRandomWord(LevelToLowerCase("Movies")) :
         CreateGameWith("Movies", word)

NextGames ==
    \/ CreateMovieGame
    \/ \E token \in TokenInputs :
         \/ AuthenticateToken("get", token, "")
         \/ AuthenticateToken("delete", token, "")
         \/ \E letter \in GameLetters :
              AuthenticateToken("guess", token, letter)
    \/ \E req \in InFlight : GetGame(req)
    \/ \E req \in InFlight : UpdateGame(req)
    \/ \E req \in InFlight : DeleteGame(req)

SpecGames == Init /\ [][NextGames]_vars

----------------------------------------------------------------------------
(* Failing collaborators.  getRandomWord, the store's createGame,          *)
(* updateGame and deleteGame, and generateToken may throw; the handler's   *)
(* catch block hands the error to next().  A store operation that throws   *)
(* may or may not have been applied.  Such an exchange has kind "fault".   *)

\* a slip: the catch block also answers the request
Thrown_Responds(route, req, error, calls) ==
    [ kind |-> "fault", route |-> route, req |-> req, thrown |-> error,
      next |-> <<error>>, status |-> 500, error |-> "Internal server error",
      calls |-> calls ]

\* catch (error) { next(error) }: nothing is sent, next is called with the
\* error that was thrown
Thrown(route, req, error, calls) ==
    [ kind |-> "fault", route |-> route, req |-> req, thrown |-> error,
      next |-> <<error>>, calls |-> calls ]

\* the error a collaborator throws
ErrorOf(collaborator) == [ thrownBy |-> collaborator ]

CreateGameFails(level, failing) ==
    /\ nextId \in WordIds
    /\ LET req == [ body |-> [ level |-> level ] ]
       IN  \/ /\ failing = "getRandomWord"
              /\ last' = Thrown("create", req, ErrorOf(failing),
                                {"getRandomWord"})
              /\ UNCHANGED <<games, nextId>>
           \/ /\ failing \in {"createGame", "generateToken"}
              /\ \E word \in GetRandomWord(LevelToLowerCase(level)) :
                   /\ ~IsFalsy(word)
                   /\ \/ /\ games' = DbCreateGame(games, nextId,
                                        Stamped(NewGameData(level,
                                                  word.chars), 0, 0))
                         /\ nextId' = nextId + 1
                      \/ /\ failing = "createGame"
                         /\ UNCHANGED <<games, nextId>>
              /\ last' = Thrown("create", req, ErrorOf(failing),
                                IF failing = "createGame"
                                THEN {"getRandomWord", "createGame"}
                                ELSE {"getRandomWord", "createGame",
                                      "generateToken"})
    /\ UNCHANGED <<reqs, overlaps>>

UpdateGameFails(req0) ==
    /\ req0 \in InFlight
    /\ req0.kind = "guess"
    /\ ValidLetter(req0.body.letter)
    /\ LET letter == ParsedLetter(req0.body.letter)
           req == [ req0 EXCEPT !.body.letter = letter ]
           game == req.game
       IN  /\ ~IsAlreadyOver(game)
           /\ ~IsAlreadyGuessed(game, letter)
           /\ \/ games' = DbUpdateGame(games, req.gameId,
                                       UpdateData(game, letter))
              \/ UNCHANGED games
           /\ last' = Thrown("guess", req, ErrorOf("updateGame"),
                             {"updateGame"})
    /\ reqs' = Handled(req0)
    /\ UNCHANGED <<nextId, overlaps>>

DeleteGameFails(req) ==
    /\ req \in InFlight
    /\ req.kind = "delete"
    /\ \/ games' = DbDeleteGame(games, req.gameId)
       \/ UNCHANGED games
    /\ last' = Thrown("delete", req, ErrorOf("deleteGame"), {"deleteGame"})
    /\ reqs' = Handled(req)
    /\ UNCHANGED <<nextId, overlaps>>

\* the messages of the errors getGameById rejects with: a driver error with
\* its message, and an error without one (new Error())
LookupMessages == {"Database connection failed", ""}

\* the error getGameById rejects with
LookupError(message) == [ thrownBy |-> "getGameById", message |-> message ]

\* a slip: the catch block always answers with the generic message
AuthErrorMessage_Generic(error) == "Invalid token"

\* authenticateToken, catch: error.message || 'Invalid token'
AuthErrorMessage(error) ==
    IF error.message = "" THEN "Invalid token" ELSE error.message

\* authenticateToken when getGameById rejects: the token was verified and
\* req.gameId set, req.game is not; the catch block answers 403 and next
\* is not called
AuthenticateTokenFails(kind, token, error) ==
    /\ BagCardinality(reqs) < MaxReqs
    /\ token # NoToken
    /\ VerifyTokenOk(token)
    /\ last' = [ kind |-> "auth",
                 req |-> Presented(kind, token)
                           @@ [ gameId |-> token.gameId ],
                 status |-> 403,
                 error |-> AuthErrorMessage(error),
                 thrown |-> error,
                 next |-> << >>,
                 calls |-> {"verifyToken", "getGameById"} ]
    /\ UNCHANGED <<games, nextId, reqs, overlaps>>

FaultLetters == {"a", "t"}

NextFaults ==
    \/ CreateMovieGame
    \/ \E token \in TokenInputs :
         \/ AuthenticateToken("get", token, "")
         \/ AuthenticateToken("delete", token, "")
         \/ \E letter \in FaultLetters :
              AuthenticateToken("guess", token, letter)
    \/ \E req \in InFlight : GetGame(req)
    \/ \E req \in InFlight : UpdateGame(req)
    \/ \E req \in InFlight : DeleteGame(req)
    \/ \E failing \in {"getRandomWord", "createGame", "generateToken"} :
         CreateGameFails("Movies", failing)
    \/ \E req \in InFlight : UpdateGameFails(req)
    \/ \E req \in InFlight : DeleteGameFails(req)
    \/ \E token \in TokenInputs, kind \in {"get", "guess", "delete"} :
         \E message \in LookupMessages :
            AuthenticateTokenFails(kind, token, LookupError(message))

SpecFaults == Init /\ [][NextFaults]_vars

----------------------------------------------------------------------------
(* The clock.  createGame of the store reads the clock twice, for createdAt *)
(* and for expiresAt, and the clock may advance by up to MaxTick           *)
(* milliseconds in between; generateToken and verifyToken read the clock   *)
(* in seconds.                                                             *)

MaxTick == 1

\* readings of the clock at a creation, in milliseconds
ClockReads == {0, 1, 1000}

\* readings of the clock when a token is issued, in seconds, and the time
\* that passes until it is verified
IssueTimes == {0, 1, 1000}

VerifyDelays == {0, 1, JwtExpiry - 1, JwtExpiry, JwtExpiry + 1}

CreateGameAtClock(level) ==
    /\ nextId \in WordIds
    /\ \E word \in GetRandomWord(LevelToLowerCase(level)) :
         \E createdAt \in ClockReads, tick \in 0..MaxTick :
            CreateGameAt(level, word, createdAt, createdAt + tick)

\* tokens a client may present to verifyToken: issued by the server at some
\* time, signed with another secret, or no JWT at all
TokensIssuedAt(iat) ==
    { GenerateTokenAt(g, iat) : g \in WordIds }
    \cup { JwtSign(g, OtherSecret, iat) : g \in WordIds }
    \cup { MalformedToken }

\* verifyToken(token) at the time 'now'; the exchange records the outcome
VerifyToken(token, now) ==
    /\ last' = [ kind |-> "verify", token |-> token, now |-> now,
                 result |-> VerifyTokenAt(token, now) ]
    /\ UNCHANGED <<games, nextId, reqs, overlaps>>

NextTime ==
    \/ CreateGameAtClock("Movies")
    \/ \E iat \in IssueTimes, delay \in VerifyDelays :
         \E token \in TokensIssuedAt(iat) : VerifyToken(token, iat + delay)

SpecTime == Init /\ [][NextTime]_vars

----------------------------------------------------------------------------
(* Properties.  A guess exchange is one completed by updateGame: its req    *)
(* holds the game authenticateToken loaded and the letter validate parsed.  *)

\* the exchange just completed is a guess that passed authentication
GuessHandled(x) == x.kind = "guess" /\ x.req # NoReq

\* ... and whose letter passed validation
GuessResolved(x) == GuessHandled(x) /\ ValidLetter(x.req.body.letter)

\* ... and was accepted
GuessAccepted(x) == GuessHandled(x) /\ x.status = 200

\* the guess was rejected without any change to the store
RejectedUntouched(x, error) ==
    /\ x.status = 400
    /\ x.error = error
    /\ "updateGame" \notin x.calls
    /\ games' = games

\* the letter matches a position of the answer, case-insensitively
Matches(answer, letter) ==
    \E i \in DOMAIN answer : ToLowerCase(answer[i]) = letter

\* C1 (terminal immutability): a guess with any letter on a game whose
\* stored gameOver flag was true when the request loaded it is rejected with
\* 'Game is already over', updateGame of the store is not called and the
\* store is left as it is.
C1_TerminalImmutability ==
    [][ (GuessResolved(last') /\ last'.req.game.gameOver)
          => RejectedUntouched(last', "Game is already over") ]_vars

\* a guess of a letter not guessed before was rejected on a finished game
C1_Witness ==
    /\ GuessResolved(last)
    /\ last.req.game.gameOver
    /\ last.req.body.letter \notin Range(last.req.game.guessedLetters)
    /\ last.error = "Game is already over"

\* C2 (duplicate rejection): on an active game a guess whose normalized
\* letter is in guessedLetters, at any index, is rejected with 'Letter
\* already guessed', updateGame of the store is not called and the store is
\* left as it is.
C2_DuplicateRejection ==
    [][ (/\ GuessResolved(last')
         /\ ~last'.req.game.gameOver
         /\ last'.req.body.letter \in Range(last'.req.game.guessedLetters))
          => RejectedUntouched(last', "Letter already guessed") ]_vars

\* the rejected letter was not the one guessed last
C2_Witness ==
    /\ GuessResolved(last)
    /\ ~last.req.game.gameOver
    /\ last.error = "Letter already guessed"
    /\ Len(last.req.game.guessedLetters) >= 2
    /\ last.req.body.letter = last.req.game.guessedLetters[1]

\* C3 as stated (idempotent rejection): resubmitting a letter of
\* guessedLetters yields 'Letter already guessed' whatever the outcome state
\* of the game.
C3_Original ==
    (/\ GuessResolved(last)
     /\ last.req.body.letter \in Range(last.req.game.guessedLetters))
      => (last.status = 400 /\ last.error = "Letter already guessed")

\* C3 as amended: resubmitting a letter of guessedLetters is always rejected
\* with status 400 and never changes the store; the rejection is 'Letter
\* already guessed' on an active game and 'Game is already over' on a game
\* that is won or lost.
C3_ResubmissionRejected ==
    [][ (/\ GuessResolved(last')
         /\ last'.req.body.letter \in Range(last'.req.game.guessedLetters))
          => RejectedUntouched(last',
               IF last'.req.game.gameOver THEN "Game is already over"
               ELSE "Letter already guessed") ]_vars

\* a letter of the answer, guessed before, was resubmitted to a won game
C3_Witness ==
    /\ GuessResolved(last)
    /\ last.req.game.gameOver
    /\ last.req.game.attempts > 0
    /\ last.req.body.letter \in Range(last.req.game.guessedLetters)
    /\ Matches(last.req.game.answer, last.req.body.letter)
    /\ last.error = "Game is already over"

\* C4 (attempts monotonicity and bounds): from one stored state of a game to
\* the next, attempts never increases, and it is always in 0..6.
C4_AttemptsMonotone ==
    [][ \A g \in (DOMAIN games) \cap (DOMAIN games') :
          /\ games'[g].attempts <= games[g].attempts
          /\ games'[g].attempts \in 0..MaxAttempts ]_vars

\* C5 (attempt accounting): an accepted guess that matches no position of
\* the answer has attempts one below the loaded game's and, unless the game
\* ends, the loaded progress, and isCorrectGuess false; one that matches a
\* position has the loaded attempts and isCorrectGuess true.  The game, if
\* still stored, holds the attempts and progress of the response.
C5_AttemptAccounting ==
    GuessAccepted(last) =>
      LET before == last.req.game
          after == last.game
      IN  /\ IF Matches(before.answer, last.req.body.letter)
             THEN /\ after.attempts = before.attempts
                  /\ after.isCorrectGuess
             ELSE /\ after.attempts = before.attempts - 1
                  /\ ~after.isCorrectGuess
                  /\ (after.gameOver
                        \/ after.currentProgress = before.currentProgress)
          /\ last.req.gameId \in DOMAIN games =>
               /\ games[last.req.gameId].attempts = after.attempts
               /\ games[last.req.gameId].currentProgress
                    = after.currentProgress

\* a miss that does not end the game, following an earlier correct guess
C5_Witness ==
    /\ GuessAccepted(last)
    /\ ~Matches(last.req.game.answer, last.req.body.letter)
    /\ ~last.game.gameOver
    /\ last.game.attempts = last.req.game.attempts - 1
    /\ last.game.currentProgress # Mask(last.req.game.answer)
    /\ last.req.gameId \in DOMAIN games

\* C6 (full reveal on termination): in every stored game and in every guess
\* response with gameOver true, the progress is the answer.
C6_FullReveal ==
    /\ \A g \in DOMAIN games :
         games[g].gameOver => games[g].currentProgress = games[g].answer
    /\ (GuessAccepted(last) /\ last.game.gameOver)
         => last.game.currentProgress = last.req.game.answer

\* a game lost without any letter of the answer having been guessed
C6_Witness ==
    /\ GuessAccepted(last)
    /\ last.game.gameOver
    /\ last.game.attempts = 0
    /\ \A i \in DOMAIN last.game.guessedLetters :
         ~Matches(last.req.game.answer, last.game.guessedLetters[i])
    /\ last.req.gameId \in DOMAIN games
    /\ games[last.req.gameId].gameOver

\* C7 (permanence of over): once the stored gameOver of a game is true, it
\* is true in every later stored state of that game.
C7_OverPermanent ==
    [][ \A g \in (DOMAIN games) \cap (DOMAIN games') :
          games[g].gameOver => games'[g].gameOver ]_vars

\* C8 (characterisation of over): in every stored state of a game, gameOver
\* is true exactly when attempts is 0 or the progress is the answer.
C8_OverCharacterised ==
    \A g \in DOMAIN games :
      games[g].gameOver
        <=> (games[g].attempts = 0
               \/ games[g].currentProgress = games[g].answer)

\* C9 (win and loss exclusive): the won flag of a guess response equals
\* gameOver and attempts > 0, and is never true together with attempts = 0.
C9_WonExclusive ==
    GuessAccepted(last) =>
      /\ last.game.won <=> (last.game.gameOver /\ last.game.attempts > 0)
      /\ ~(last.game.won /\ last.game.attempts = 0)

\* a guess response that reports the loss of the game
C9_Witness ==
    /\ GuessAccepted(last)
    /\ last.game.gameOver
    /\ last.game.attempts = 0
    /\ ~last.game.won

\* C10 (a win requires a correct guess): a guess response with won true has
\* isCorrectGuess true.
C10_WinNeedsCorrectGuess ==
    (GuessAccepted(last) /\ last.game.won) => last.game.isCorrectGuess

\* the stored game of the exchange's request, if it is still stored
StoredAgrees(x) ==
    x.req.gameId \in DOMAIN games =>
        LET stored == games[x.req.gameId]
        IN  /\ stored.attempts = x.game.attempts
            /\ stored.currentProgress = x.game.currentProgress
            /\ stored.gameOver = x.game.gameOver
            /\ stored.guessedLetters = x.game.guessedLetters

\* the letter fills every position of the answer that the progress lacks
Completes(answer, currentProgress, letter) ==
    \A i \in DOMAIN answer :
        currentProgress[i] = answer[i] \/ ToLowerCase(answer[i]) = letter

\* C11 (last-attempt win): for every a in 1..6, an accepted guess that is
\* correct and completes the word on a game loaded with attempts = a answers
\* gameOver = true, won = true, isCorrectGuess = true and attempts = a, and
\* writes the same to the store.
C11_LastAttemptWin ==
    ( /\ GuessAccepted(last)
      /\ last.req.game.attempts \in 1..6
      /\ Matches(last.req.game.answer, last.req.body.letter)
      /\ Completes(last.req.game.answer, last.req.game.currentProgress,
                   last.req.body.letter) )
    => /\ last.game.gameOver
       /\ last.game.won
       /\ last.game.isCorrectGuess
       /\ last.game.attempts = last.req.game.attempts
       /\ StoredAgrees(last)

\* the word was completed with one attempt left
C11_Witness ==
    /\ GuessAccepted(last)
    /\ last.req.game.attempts = 1
    /\ Matches(last.req.game.answer, last.req.body.letter)
    /\ Completes(last.req.game.answer, last.req.game.currentProgress,
                 last.req.body.letter)
    /\ last.game.won
    /\ last.game.attempts = 1

\* C12 (loss path): an accepted guess with a letter the answer does not
\* contain, on a game loaded with attempts = 1, answers attempts = 0,
\* gameOver = true, won = false, isCorrectGuess = false, guessedLetters
\* extended by the letter and currentProgress equal to the answer, and
\* writes the same to the store.
C12_LossPath ==
    ( /\ GuessAccepted(last)
      /\ last.req.game.attempts = 1
      /\ ~Matches(last.req.game.answer, last.req.body.letter) )
    => /\ last.game.attempts = 0
       /\ last.game.gameOver
       /\ ~last.game.won
       /\ ~last.game.isCorrectGuess
       /\ last.game.guessedLetters =
            Append(last.req.game.guessedLetters, last.req.body.letter)
       /\ last.game.currentProgress = last.req.game.answer
       /\ StoredAgrees(last)

\* the sixth wrong guess was accepted on a game with an unrevealed letter
C12_Witness ==
    /\ GuessAccepted(last)
    /\ last.req.game.attempts = 1
    /\ ~Matches(last.req.game.answer, last.req.body.letter)
    /\ last.req.game.currentProgress # last.req.game.answer
    /\ last.game.attempts = 0
    /\ last.req.gameId \in DOMAIN games
    /\ games[last.req.gameId].gameOver

\* the exchange just completed is a create for which the word source gave a
\* non-empty string
CreatedFromWord(x) ==
    x.kind = "create" /\ x.word.type = "string" /\ x.word.chars # <<>>

\* the characters the mask shows: space, hyphen, colon, comma, period and
\* apostrophe
ShownChars == {" ", "-", ":", ",", ".", "'"}

\* progress is answer with every character outside ShownChars replaced by
\* the placeholder
MaskOf(answer, progress) ==
    /\ Len(progress) = Len(answer)
    /\ \A i \in 1..Len(answer) :
         IF answer[i] \in ShownChars THEN progress[i] = answer[i]
         ELSE progress[i] = "_"

\* C13 (masking): for every non-empty answer the word source gives, the
\* initial progress, returned and stored, has the length of the answer,
\* equals the answer at every index holding a space, '-', ':', ',', '.' or
\* apostrophe, and is '_' at every other index (letter, digit or any other
\* character).
C13_Masking ==
    CreatedFromWord(last)
    => /\ last.status = 201
       /\ MaskOf(last.word.chars, last.game.currentProgress)
       /\ games[last.token.gameId].currentProgress =
            last.game.currentProgress

\* a game was created from an answer holding an apostrophe next to a digit
C13_Witness ==
    /\ CreatedFromWord(last)
    /\ last.status = 201
    /\ last.word.chars = <<"'", "7">>
    /\ last.game.currentProgress = <<"'", "_">>

\* C14 (reveal rule): in an accepted guess of letter c that leaves the game
\* active, every position whose answer character equals c ignoring case
\* shows the answer's character, every other position is as it was loaded,
\* and however many positions c fills the guess is one correct guess: no
\* attempt is spent and c is entered once in guessedLetters.
C14_RevealRule ==
    (GuessAccepted(last) /\ ~last.game.gameOver)
    => LET answer == last.req.game.answer
           before == last.req.game.currentProgress
           after == last.game.currentProgress
           c == last.req.body.letter
       IN  /\ Len(after) = Len(answer)
           /\ \A i \in 1..Len(answer) :
                IF ToLowerCase(answer[i]) = c THEN after[i] = answer[i]
                ELSE after[i] = before[i]
           /\ Matches(answer, c) =>
                /\ last.game.isCorrectGuess
                /\ last.game.attempts = last.req.game.attempts
                /\ last.game.guessedLetters =
                     Append(last.req.game.guessedLetters, c)
           /\ StoredAgrees(last)

\* one guess filled two positions and the game stayed active
C14_Witness ==
    /\ GuessAccepted(last)
    /\ ~last.game.gameOver
    /\ \E i, j \in 1..Len(last.req.game.answer) :
         /\ i # j
         /\ ToLowerCase(last.req.game.answer[i]) = last.req.body.letter
         /\ ToLowerCase(last.req.game.answer[j]) = last.req.body.letter
         /\ last.req.game.currentProgress[i] = "_"
         /\ last.req.game.currentProgress[j] = "_"
         /\ last.game.currentProgress[i] = last.req.game.answer[i]
         /\ last.game.currentProgress[j] = last.req.game.answer[j]

\* ch is the letter c in either case (c is lower-case)
SameLetter(ch, c) ==
    \E k \in 1..26 : LowerChars[k] = c /\ (ch = c \/ ch = UpperChars[k])

\* C15 (case handling): an accepted guess of the lower-case letter c is
\* correct exactly when the answer holds c in either case, and at every
\* such position the progress shows the answer's own character, upper-case
\* where the answer is upper-case, never the guessed character instead.
C15_CaseHandling ==
    GuessAccepted(last)
    => LET answer == last.req.game.answer
           after == last.game.currentProgress
           c == last.req.body.letter
       IN  /\ last.game.isCorrectGuess
                <=> \E i \in 1..Len(answer) : SameLetter(answer[i], c)
           /\ \A i \in 1..Len(answer) :
                SameLetter(answer[i], c) => after[i] = answer[i]

\* a lower-case guess revealed an upper-case character of the answer while
\* the game stayed active
C15_Witness ==
    /\ GuessAccepted(last)
    /\ ~last.game.gameOver
    /\ \E i \in 1..Len(last.req.game.answer) :
         /\ last.req.game.answer[i] \in Range(UpperChars)
         /\ last.req.game.answer[i] # last.req.body.letter
         /\ SameLetter(last.req.game.answer[i], last.req.body.letter)
         /\ last.req.game.currentProgress[i] = "_"
         /\ last.game.currentProgress[i] = last.req.game.answer[i]

\* C16 (guess history): every accepted guess appends its letter at the end
\* of the stored guessedLetters and leaves the earlier entries and their
\* order as they were, so the stored list grows by exactly the accepted
\* letters in the order of their acceptance.
C16_GuessHistory ==
    [][ ( /\ GuessAccepted(last')
          /\ last'.req.gameId \in DOMAIN games
          /\ last'.req.gameId \in DOMAIN games' )
        => games'[last'.req.gameId].guessedLetters =
             Append(games[last'.req.gameId].guessedLetters,
                    last'.req.body.letter) ]_vars

\* C17 (no repeated letters): in every reachable state of the store, each
\* letter occurs at most once in the guessedLetters of every game.
C17_NoRepeatedLetters ==
    \A g \in DOMAIN games :
        \A i, j \in 1..Len(games[g].guessedLetters) :
            games[g].guessedLetters[i] = games[g].guessedLetters[j] => i = j

\* two requests loaded the same game and guessed the same letter; both were
\* accepted and the letter is stored once
C17_Witness ==
    /\ GuessAccepted(last)
    /\ last.req.gameId \in DOMAIN games
    /\ last.req.body.letter \in Range(games[last.req.gameId].guessedLetters)
    /\ Len(games[last.req.gameId].guessedLetters) >= 2
    /\ Len(last.req.game.guessedLetters) + 1
         = Len(games[last.req.gameId].guessedLetters)
    /\ overlaps >= 1

\* the fields of an exchange that are sent to the client
ResponseFields == {"status", "error", "token", "game"}

\* the fields a response may give about a game
GameFields ==
    {"level", "attempts", "currentProgress", "gameOver", "guessedLetters",
     "isCorrectGuess", "won"}

\* C18 (answer secrecy): no response of create, get, guess or delete has an
\* answer field, neither at the top level nor in its game, and the game of
\* a response has no field other than level, attempts, currentProgress,
\* gameOver, guessedLetters, isCorrectGuess and won; the response of delete
\* has no game at all.
C18_AnswerSecrecy ==
    /\ "answer" \notin (DOMAIN last \cap ResponseFields)
    /\ "game" \in DOMAIN last =>
         /\ "answer" \notin DOMAIN last.game
         /\ DOMAIN last.game \subseteq GameFields
    /\ last.kind = "delete" => "game" \notin DOMAIN last

\* get answered for an active game whose answer differs from its progress
C18_Witness ==
    /\ last.kind = "get"
    /\ last.status = 200
    /\ ~last.req.game.gameOver
    /\ last.req.game.answer # last.game.currentProgress
    /\ "answer" \in DOMAIN last.req.game
    /\ "answer" \notin DOMAIN last.game

\* C19 (creation initial state): whenever the word source gives a non-empty
\* word, create answers 201, stores exactly one new game and leaves every
\* other game as it is; the new game has that word as answer, the mask of
\* the word as progress, attempts 6, gameOver false and no guessed letters,
\* and the token of the response is a valid token for the new game's id.
C19_CreationInitialState ==
    [][ CreatedFromWord(last')
        => /\ last'.status = 201
           /\ LET id == last'.token.gameId
              IN  /\ id \notin DOMAIN games
                  /\ DOMAIN games' = DOMAIN games \cup {id}
                  /\ \A g \in DOMAIN games : games'[g] = games[g]
                  /\ games'[id].answer = last'.word.chars
                  /\ MaskOf(last'.word.chars, games'[id].currentProgress)
                  /\ games'[id].attempts = 6
                  /\ games'[id].gameOver = FALSE
                  /\ games'[id].guessedLetters = <<>>
                  /\ VerifyTokenOk(last'.token) ]_vars

\* a second game was created next to the first one
C19_Witness ==
    /\ CreatedFromWord(last)
    /\ last.status = 201
    /\ last.word.chars = <<"A", "-">>
    /\ last.token.gameId = 2
    /\ DOMAIN games = {1, 2}
    /\ games[2].answer = <<"A", "-">>
    /\ games[2].attempts = 6

\* the word source gave nothing: null, undefined or the empty string
NothingGiven(word) ==
    \/ word = JsNull
    \/ word = JsUndefined
    \/ word = JsString(<<>>)

\* C20 (no word available): when the word source gives null, undefined or
\* the empty string, create answers 404, createGame of the store is not
\* called, the store is left as it is and the response has no token.
C20_NoWordAvailable ==
    [][ (last'.kind = "create" /\ NothingGiven(last'.word))
        => /\ last'.status = 404
           /\ "token" \notin DOMAIN last'
           /\ "game" \notin DOMAIN last'
           /\ "createGame" \notin last'.calls
           /\ games' = games
           /\ nextId' = nextId ]_vars

\* the word source gave the empty string while a game was stored
C20_Witness ==
    /\ last.kind = "create"
    /\ last.word = JsString(<<>>)
    /\ last.status = 404
    /\ "token" \notin DOMAIN last
    /\ DOMAIN games = {1}

\* C21 (per-game serialization): no save of another request falls between
\* a guess request's load of the game and its own save, that is, every
\* accepted guess is resolved on the game as it is stored when the guess
\* is saved; so the stored guessedLetters keep every letter accepted before
\* and attempts and progress build on the earlier guesses.
C21_PerGameSerialization ==
    [][ (GuessAccepted(last') /\ last'.req.gameId \in DOMAIN games)
        => last'.req.game = games[last'.req.gameId] ]_vars

\* C22 (independence of games): a get, guess or delete handled with the
\* token of one game, and a request authenticateToken rejects, leaves every
\* other game stored exactly as it was and creates or removes no other
\* game, whatever requests for other games are in flight.
C22_GamesIndependent ==
    [][ /\ last'.kind \in {"get", "guess", "delete"} =>
            \A h \in WordIds \ {last'.req.gameId} :
                /\ h \in DOMAIN games' <=> h \in DOMAIN games
                /\ h \in DOMAIN games => games'[h] = games[h]
        /\ last'.kind = "auth" => games' = games ]_vars

\* a guess on game 1 was accepted while a request that loaded game 2 was in
\* flight and game 2 was stored with a history of its own
C22_Witness ==
    /\ GuessAccepted(last)
    /\ last.req.gameId = 1
    /\ DOMAIN games = {1, 2}
    /\ games[2].guessedLetters # <<>>
    /\ games[2].guessedLetters # games[1].guessedLetters
    /\ \E req \in InFlight : req.gameId = 2 /\ req.kind = "guess"

\* g was created and is no longer stored; where the TTL index does not fire
\* that is: a delete request for g has succeeded
Deleted(g) == g \in 1..(nextId - 1) /\ g \notin DOMAIN games

\* C23 (deletion ends the session): once a delete request for a game has
\* succeeded the game stays deleted, no request presenting its token is
\* passed on to a handler any more, and every request presenting its still
\* validly signed token is answered by authenticateToken with 404 'Game not
\* found or expired'.
C23_DeletionEndsSession ==
    [][ \A g \in WordIds : Deleted(g) =>
          /\ g \notin DOMAIN games'
          /\ \A req \in BagToSet(reqs') :
               req.gameId = g => CopiesIn(req, reqs') <= CopiesIn(req, reqs)
          /\ (last'.kind = "auth" /\ last'.req.token = GenerateToken(g)) =>
               /\ last'.status = 404
               /\ last'.error = "Game not found or expired"
               /\ reqs' = reqs ]_vars

\* the token of the deleted game 1 was answered 404 while game 2 was stored
C23_Witness ==
    /\ Deleted(1)
    /\ 2 \in DOMAIN games
    /\ last.kind = "auth"
    /\ last.req.token = GenerateToken(1)
    /\ VerifyTokenOk(last.req.token)
    /\ last.status = 404
    /\ last.error = "Game not found or expired"

\* the token is one the server issued for a game it created
Issued(token) == \E g \in 1..(nextId - 1) : token = GenerateToken(g)

\* the requests authenticateToken passes on in this step
PassedOn == { req \in BagToSet(reqs') : CopiesIn(req, reqs') > CopiesIn(req, reqs) }

\* C24 (authentication gating and order): a request without a token is
\* answered 401 and verifyToken is not called; a token that does not verify
\* is answered 403 and no game is looked up; getGameById is called only
\* with verifyToken called and passed; a verified token whose game is not
\* stored is answered 404; none of these requests is passed on; and a
\* request is passed on, and a get, guess or delete handler runs, only for
\* an issued token whose game was found.
C24_AuthenticationGating ==
    [][ /\ last'.kind = "auth" =>
            /\ reqs' = reqs
            /\ last'.req.token = NoToken =>
                 last'.status = 401 /\ last'.calls = {}
            /\ (last'.req.token # NoToken /\ ~Issued(last'.req.token)) =>
                 last'.status = 403 /\ last'.calls = {"verifyToken"}
            /\ "getGameById" \in last'.calls =>
                 "verifyToken" \in last'.calls /\ Issued(last'.req.token)
            /\ Issued(last'.req.token) =>
                 /\ last'.status = 404
                 /\ last'.calls = {"verifyToken", "getGameById"}
                 /\ last'.req.token.gameId \notin DOMAIN games
        /\ \A req \in PassedOn :
            /\ Issued(req.token)
            /\ req.gameId = req.token.gameId
            /\ req.gameId \in DOMAIN games
            /\ req.game = games[req.gameId]
        /\ last'.kind \in {"get", "guess", "delete"} =>
            \E req \in InFlight :
                /\ reqs' = Handled(req)
                /\ req.kind = last'.kind
                /\ req.gameId = last'.req.gameId
                /\ Issued(req.token)
                /\ req.game # NoGame ]_vars

\* a token signed with another secret was answered 403 although its game is
\* stored
C24_Witness ==
    /\ last.kind = "auth"
    /\ last.status = 403
    /\ last.req.token # NoToken
    /\ ~Issued(last.req.token)
    /\ last.req.token.gameId \in DOMAIN games
    /\ last.calls = {"verifyToken"}

\* C25 (read-your-writes): when a guess has been answered with success and
\* no request for its game is in flight, the next request with the same
\* token is not turned away, and a get passed on then has loaded exactly
\* the attempts, currentProgress, gameOver and guessedLetters of the guess
\* response; every get answers 200 with the fields of the game it loaded
\* and leaves the store as it is.
C25_ReadYourWrites ==
    [][ /\ ( /\ GuessAccepted(last)
             /\ \A req \in InFlight : req.gameId # last.req.gameId )
           => /\ ~( /\ last'.kind = "auth"
                    /\ last'.req.token = GenerateToken(last.req.gameId) )
              /\ \A req \in PassedOn :
                   (req.kind = "get" /\ req.gameId = last.req.gameId)
                   => /\ req.game.attempts = last.game.attempts
                      /\ req.game.currentProgress = last.game.currentProgress
                      /\ req.game.gameOver = last.game.gameOver
                      /\ req.game.guessedLetters = last.game.guessedLetters
        /\ last'.kind = "get"
           => /\ games' = games
              /\ last'.status = 200
              /\ last'.game.attempts = last'.req.game.attempts
              /\ last'.game.currentProgress = last'.req.game.currentProgress
              /\ last'.game.gameOver = last'.req.game.gameOver
              /\ last'.game.guessedLetters = last'.req.game.guessedLetters
      ]_vars

\* raw is exactly one character of a-z or A-Z
SingleLetter(raw) ==
    \E k \in 1..26 : raw = LowerChars[k] \/ raw = UpperChars[k]

\* the guess handling of this step took the request req from those in flight
GuessStep(req) ==
    /\ req \in InFlight
    /\ req.kind = "guess"
    /\ reqs' = Handled(req)
    /\ last'.kind = "guess"

\* C26 (guess format validation): a guess whose letter is not exactly one
\* character of a-z or A-Z is answered 400 'Validation failed', the store's
\* updateGame is not called, and the request body and the stored games are
\* left as they were; a guess with such a letter passes validation and is
\* resolved with the lower-case form of the letter.
C26_GuessFormatValidation ==
    [][ \A req \in InFlight : GuessStep(req) =>
          IF SingleLetter(req.body.letter)
          THEN /\ last'.error # "Validation failed"
               /\ last'.req.body.letter \in Range(LowerChars)
               /\ SameLetter(req.body.letter, last'.req.body.letter)
          ELSE /\ last'.status = 400
               /\ last'.error = "Validation failed"
               /\ "updateGame" \notin last'.calls
               /\ last'.req.body = req.body
               /\ games' = games ]_vars

\* a guess of two characters was turned away on a stored, active game
C26_Witness ==
    /\ last.kind = "guess"
    /\ last.status = 400
    /\ last.error = "Validation failed"
    /\ last.req.body.letter = "ab"
    /\ last.req.gameId \in DOMAIN games
    /\ ~games[last.req.gameId].gameOver

\* the letter was sent in the other case than an entry of guessedLetters
\* that is the same letter
OtherCaseOfGuessed(raw, guessedLetters) ==
    \E i \in 1..Len(guessedLetters) :
        raw # guessedLetters[i] /\ SameLetter(raw, guessedLetters[i])

\* C27 (case-insensitive duplicate detection): a guess of a letter that the
\* loaded, still active game holds in guessedLetters in the other case ('A'
\* after an accepted 'a') is answered 400 'Letter already guessed', the
\* store's updateGame is not called and the stored games, so attempts,
\* progress and guessedLetters, are left as they were.
C27_DuplicateAnyCase ==
    [][ \A req \in InFlight :
          ( /\ GuessStep(req)
            /\ ~req.game.gameOver
            /\ OtherCaseOfGuessed(req.sent.letter, req.game.guessedLetters) )
          => /\ last'.status = 400
             /\ last'.error = "Letter already guessed"
             /\ "updateGame" \notin last'.calls
             /\ games' = games ]_vars

\* 'A' was turned away on a stored, active game that holds 'a'
C27_Witness ==
    /\ last.kind = "guess"
    /\ last.status = 400
    /\ last.error = "Letter already guessed"
    /\ last.req.sent.letter = "A"
    /\ ~last.req.game.gameOver
    /\ "a" \in Range(last.req.game.guessedLetters)
    /\ last.req.gameId \in DOMAIN games
    /\ games[last.req.gameId] = last.req.game

\* C28 (collaborator failures propagate): when getRandomWord, the store's
\* createGame, updateGame or deleteGame, or generateToken throws during
\* create, guess or delete, the handler calls next() exactly once, with
\* the error that was thrown, and sends nothing: the exchange has neither
\* status nor body.
C28_FailuresPropagate ==
    last.kind = "fault"
    => /\ last.route \in {"create", "guess", "delete"}
       /\ last.thrown.thrownBy \in last.calls
       /\ last.next = <<last.thrown>>
       /\ DOMAIN last \cap ResponseFields = {}

\* the store's updateGame threw on a guess that was about to be saved
C28_Witness ==
    /\ last.kind = "fault"
    /\ last.route = "guess"
    /\ last.thrown = ErrorOf("updateGame")
    /\ last.next = <<ErrorOf("updateGame")>>
    /\ "status" \notin DOMAIN last

\* C29 (expiry stamp): every stored game has expiresAt exactly 86,400,000
\* milliseconds after its createdAt.
C29_ExpiryStamp ==
    \A g \in DOMAIN games :
        games[g].expiresAt - games[g].createdAt = 86400000

\* the token is what generateToken gave for some game id at some time
Generated(token) ==
    \E g \in WordIds, iat \in IssueTimes : token = GenerateTokenAt(g, iat)

\* C30 (session credential round trip): verifyToken of a token that
\* generateToken gave for a game id, at a time before the token's exp,
\* returns a payload with that game id; verifyToken of a token that has
\* expired, is malformed or was signed with another secret fails with
\* 'Invalid or expired token' and gives no payload, so no game id.
C30_TokenRoundTrip ==
    last.kind = "verify"
    => IF Generated(last.token) /\ last.now < last.token.exp
       THEN /\ last.result.ok
            /\ last.result.payload.gameId = last.token.gameId
       ELSE /\ ~last.result.ok
            /\ last.result.error = "Invalid or expired token"
            /\ "payload" \notin DOMAIN last.result

\* a generated token was turned away at the second its exp names
C30_Witness ==
    /\ last.kind = "verify"
    /\ Generated(last.token)
    /\ last.token.gameId = 2
    /\ last.now = last.token.exp
    /\ last.token.exp = last.token.iat + 86400
    /\ ~last.result.ok
    /\ last.result.error = "Invalid or expired token"

\* C31 (frame of a guess): an accepted guess leaves the stored game with
\* the fields it had, and with the answer, level, createdAt and expiresAt
\* it had; and no step at all changes the answer of a game that stays
\* stored, so the answer is fixed from creation to deletion.
C31_GuessFrame ==
    [][ /\ \A g \in DOMAIN games \cap DOMAIN games' :
             /\ "answer" \in DOMAIN games'[g]
             /\ games'[g].answer = games[g].answer
        /\ ( /\ GuessAccepted(last')
             /\ last'.req.gameId \in DOMAIN games
             /\ last'.req.gameId \in DOMAIN games' )
           => LET before == games[last'.req.gameId]
                  after == games'[last'.req.gameId]
              IN  /\ DOMAIN after = DOMAIN before
                  /\ after.answer = before.answer
                  /\ after.level = before.level
                  /\ after.createdAt = before.createdAt
                  /\ after.expiresAt = before.expiresAt ]_vars

\* an accepted guess changed attempts, guessedLetters and progress of a
\* stored game and left its answer
C31_Witness ==
    /\ GuessAccepted(last)
    /\ last.req.gameId \in DOMAIN games
    /\ LET after == games[last.req.gameId]
       IN  /\ after.guessedLetters # last.req.game.guessedLetters
           /\ after.attempts < 6
           /\ after.currentProgress # Mask(after.answer)
           /\ after.answer = last.req.game.answer
           /\ after.expiresAt = last.req.game.expiresAt
           /\ ~after.gameOver

\* the letters of guessedLetters that the answer does not hold in either
\* case, as positions of the list
MissesOf(game) ==
    { i \in 1..Len(game.guessedLetters) :
        \A j \in 1..Len(game.answer) :
            ~SameLetter(game.answer[j], game.guessedLetters[i]) }

\* C32 (bookkeeping invariant): in every reachable state of the store, the
\* attempts of every game are 6 minus the number of letters in its
\* guessedLetters that do not occur in its answer in either case.
C32_Bookkeeping ==
    \A g \in DOMAIN games :
        games[g].attempts = 6 - Cardinality(MissesOf(games[g]))

\* a guess resolved on a stale copy was saved; the stored game holds two
\* misses and a hit
C32_Witness ==
    /\ GuessAccepted(last)
    /\ last.req.gameId \in DOMAIN games
    /\ overlaps >= 1
    /\ LET game == games[last.req.gameId]
       IN  /\ Cardinality(MissesOf(game)) = 2
           /\ Len(game.guessedLetters) = 3
           /\ game.attempts = 4

\* the character of the answer is a letter of guessedLetters, in either case
GuessedChar(game, ch) ==
    \E k \in 1..Len(game.guessedLetters) :
        SameLetter(ch, game.guessedLetters[k])

\* C33 (progress consistency): in every reachable state of the store the
\* progress of every game has the length of its answer, and while the game is
\* not over each position shows the answer's character if that character is
\* a preserved one or its lower-case form is in guessedLetters, and the
\* placeholder '_' otherwise.
C33_ProgressConsistency ==
    \A g \in DOMAIN games :
        LET game == games[g]
        IN  /\ Len(game.currentProgress) = Len(game.answer)
            /\ ~game.gameOver =>
                 \A i \in 1..Len(game.answer) :
                     game.currentProgress[i] =
                         IF \/ game.answer[i] \in ShownChars
                            \/ GuessedChar(game, game.answer[i])
                         THEN game.answer[i]
                         ELSE "_"

\* a running game after a hit and a miss, saved by a request that
\* overlapped another: an upper-case letter and a preserved character are
\* shown, a position is still hidden
C33_Witness ==
    /\ GuessAccepted(last)
    /\ overlaps >= 1
    /\ last.req.gameId \in DOMAIN games
    /\ LET game == games[last.req.gameId]
       IN  /\ ~game.gameOver
           /\ Len(game.guessedLetters) = 2
           /\ game.attempts = 5
           /\ \E i, j, k \in 1..Len(game.answer) :
                /\ game.currentProgress[i] = "_"
                /\ game.currentProgress[j] \in Range(UpperChars)
                /\ game.currentProgress[k] \in ShownChars

\* the guesses worth trying on a game: each character of the answer as the
\* client could send it, and the first letter of FillerChars not guessed
\* yet (the letters that the answer does not hold differ only by name)
WorthTrying(game) ==
    Range(game.answer)
    \cup { FillerChars[i] : i \in
             { j \in DOMAIN FillerChars :
                 /\ ~IsAlreadyGuessed(game, FillerChars[j])
                 /\ \A k \in 1..(j - 1) :
                        IsAlreadyGuessed(game, FillerChars[k]) } }

\* the game as the store holds it after the guess was saved
AfterGuess(game, letter) ==
    LET updateData == UpdateData(game, letter)
    IN  [ game EXCEPT !.currentProgress = updateData.currentProgress,
                      !.attempts = updateData.attempts,
                      !.gameOver = updateData.gameOver,
                      !.guessedLetters = updateData.guessedLetters ]

\* some sequence of at most n valid single-letter guesses, each accepted,
\* ends the game as won
RECURSIVE CanWin(_, _)
CanWin(game, n) ==
    /\ n > 0
    /\ ~IsAlreadyOver(game)
    /\ \E raw \in WorthTrying(game) :
         /\ ValidLetter(raw)
         /\ ~IsAlreadyGuessed(game, ParsedLetter(raw))
         /\ LET after == AfterGuess(game, ParsedLetter(raw))
            IN  \/ IsWon(after.gameOver, after.attempts)
                \/ CanWin(after, n - 1)

\* C34 (winnability): for every non-empty answer the word source can return
\* and every active state of its game, some sequence of valid single-letter
\* guesses leads to a game that is over and won.  An accepted guess adds a
\* letter to guessedLetters, so 26 guesses are the longest sequence.
C34_Winnability ==
    \A g \in DOMAIN games :
        ~games[g].gameOver => CanWin(games[g], 26)

\* the same for the answers made of letters and preserved characters only
C34_LetterAnswersOnly ==
    \A g \in DOMAIN games :
        ( /\ ~games[g].gameOver
          /\ \A i \in 1..Len(games[g].answer) :
               games[g].answer[i] \in
                   ShownChars \cup Range(LowerChars) \cup Range(UpperChars) )
        => CanWin(games[g], 26)

----------------------------------------------------------------------------
(* Guess cycles one at a time: a guess request is admitted only when no    *)
(* other guess request is between authenticateToken and its handler; get   *)
(* and delete requests still overlap it.                                   *)

SerialGuess(token, letter) ==
    /\ \A req \in InFlight : req.kind # "guess"
    /\ AuthenticateToken("guess", token, letter)

NextSerial ==
    \/ \E level \in Levels : CreateGame(level)
    \/ \E token \in TokenInputs :
         \/ AuthenticateToken("get", token, "")
         \/ AuthenticateToken("delete", token, "")
         \/ \E letter \in BodyInputs(token) : SerialGuess(token, letter)
    \/ \E req \in InFlight : GetGame(req)
    \/ \E req \in InFlight : UpdateGame(req)
    \/ \E req \in InFlight : DeleteGame(req)
    \/ \E g \in DOMAIN games : ExpireGame(g)

SpecSerial == Init /\ [][NextSerial]_vars

\* the accepted guesses of a game, with guess cycles one at a time: each is
\* one more letter of guessedLetters, none occurs twice, each is one of the
\* 26 lower-case letters
CountsGuesses(game) ==
    /\ Range(game.guessedLetters) \subseteq Range(LowerChars)
    /\ Cardinality(Range(game.guessedLetters)) = Len(game.guessedLetters)
    /\ Len(game.guessedLetters) <= 26
    /\ Cardinality(MissesOf(game)) <= 6

\* the game has had its sixth miss, or shows every position of the answer
Exhausted(game) ==
    \/ Cardinality(MissesOf(game)) = 6
    \/ game.currentProgress = game.answer

\* C35 (termination of a game): with guess cycles executed one at a time,
\* every game accepts at most 26 guesses and at most 6 incorrect ones: an
\* accepted guess was resolved on the game as stored, which was not over,
\* and is saved as one more letter of guessedLetters, distinct from those
\* before; after the 6th incorrect accepted guess or the guess revealing the
\* last hidden position the game is over, so that no guess is accepted after
\* it.
C35_Termination ==
    [][ /\ \A g \in DOMAIN games' : CountsGuesses(games'[g])
        /\ GuessAccepted(last') =>
             LET g == last'.req.gameId
                 loaded == last'.req.game
                 letter == last'.req.body.letter
             IN  /\ ~loaded.gameOver
                 /\ CountsGuesses(
                        [ loaded EXCEPT !.guessedLetters =
                                            last'.game.guessedLetters ])
                 /\ g \in DOMAIN games => games[g] = loaded
                 /\ g \in DOMAIN games' =>
                      /\ g \in DOMAIN games
                      /\ letter \notin Range(games[g].guessedLetters)
                      /\ games'[g].guessedLetters =
                             Append(games[g].guessedLetters, letter)
                      /\ Exhausted(games'[g]) <=> games'[g].gameOver
                 /\ last'.game.gameOver <=>
                      \/ last'.game.attempts = 0
                      \/ last'.game.currentProgress = loaded.answer ]_vars

\* the sixth miss in a row of accepted guesses, after one hit, has ended
\* the game as lost
C35_Witness ==
    /\ GuessAccepted(last)
    /\ last.req.gameId \in DOMAIN games
    /\ LET game == games[last.req.gameId]
       IN  /\ game.gameOver
           /\ game.attempts = 0
           /\ Len(game.guessedLetters) = 7
           /\ Cardinality(MissesOf(game)) = 6
           /\ ~last.game.won

----------------------------------------------------------------------------
(* Two games with answers that look alike: the word source gives words of  *)
(* two characters that differ in the case of a letter, in a hidden         *)
(* character or in a preserved one; the clients create games of two        *)
(* levels, guess and get.                                                  *)

PairWords ==
    { JsString(<<"A", "b">>), JsString(<<"a", "b">>),
      JsString(<<"a", "7">>), JsString(<<"a", "-">>) }

PairLevels == {"Movies", "Sports"}

\* a letter that the answers hold, and one that none holds
PairLetters == {"a", "t"}

\* the first game is one of Movies, the second of either level
CreatePairGame(level) ==
    /\ nextId \in WordIds
    /\ nextId = 1 => level = "Movies"
    /\ \E word \in PairWords : CreateGameWith(level, word)

NextPairs ==
    \/ \E level \in PairLevels : CreatePairGame(level)
    \/ \E token \in TokenInputs :
         \/ AuthenticateToken("get", token, "")
         \/ \E letter \in PairLetters :
              AuthenticateToken("guess", token, letter)
    \/ \E req \in InFlight : GetGame(req)
    \/ \E req \in InFlight : UpdateGame(req)

SpecPairs == Init /\ [][NextPairs]_vars

\* the exchange was answered with a game in the response body
Answered(x) ==
    /\ x.kind \in {"create", "get", "guess"}
    /\ x.status \in {200, 201}

\* the answer, the level and the letters guessed so far of the game that
\* the exchange was served from, the letter of a guess included
AnswerOf(x) ==
    IF x.kind = "create" THEN x.word.chars ELSE x.req.game.answer

LevelOf(x) ==
    IF x.kind = "create" THEN x.req.body.level ELSE x.req.game.level

GuessedSoFar(x) ==
    CASE x.kind = "create" -> << >>
      [] x.kind = "get" -> x.req.game.guessedLetters
      [] x.kind = "guess" ->
             Append(x.req.game.guessedLetters, x.req.body.letter)

\* same length, and the same preserved characters at the same positions
SameShape(a1, a2) ==
    /\ Len(a1) = Len(a2)
    /\ \A i \in 1..Len(a1) :
         (a1[i] \in ShownChars \/ a2[i] \in ShownChars) => a1[i] = a2[i]

\* the same positions for every letter guessed
SamePositions(a1, a2, letters) ==
    \A k \in 1..Len(letters) : \A i \in 1..Len(a1) :
        SameLetter(a1[i], letters[k]) <=> SameLetter(a2[i], letters[k])

\* the same character, upper-case or lower-case, at the positions of every
\* letter guessed
SameRevealed(a1, a2, letters) ==
    \A k \in 1..Len(letters) : \A i \in 1..Len(a1) :
        SameLetter(a1[i], letters[k]) => a1[i] = a2[i]

\* two exchanges of the same kind, one after the other, served from games
\* that the claim calls alike, neither over
AlikeExchanges(x, y) ==
    /\ Answered(x) /\ Answered(y)
    /\ x.kind = y.kind
    /\ LevelOf(x) = LevelOf(y)
    /\ GuessedSoFar(x) = GuessedSoFar(y)
    /\ SameShape(AnswerOf(x), AnswerOf(y))
    /\ SamePositions(AnswerOf(x), AnswerOf(y), GuessedSoFar(x))
    /\ ~x.game.gameOver /\ ~y.game.gameOver

SameResponse(x, y) ==
    /\ x.status = y.status
    /\ x.error = y.error
    /\ x.game = y.game

\* C36 (no leak of hidden letters), as the program has it: for two games
\* with the same level and the same letters guessed so far, whose answers
\* have the same length, the same preserved characters at the same
\* positions, and the same characters in the same case at the same positions
\* for every letter guessed so far, the create, get and guess responses are
\* identical (status, error and game; the token names the game) as long as
\* neither game is over.
C36_NoLeak ==
    [][ ( /\ AlikeExchanges(last, last')
          /\ SameRevealed(AnswerOf(last), AnswerOf(last'),
                          GuessedSoFar(last)) )
        => SameResponse(last, last') ]_vars

\* C36 as stated: the same positions for every letter guessed so far are
\* enough for identical responses.
C36_Original ==
    [][ AlikeExchanges(last, last') => SameResponse(last, last') ]_vars

\* the second of two overlapping guesses of 'a', on the games of 'ab' and
\* 'a7', after a miss on each: both were answered alike, one position shown
C36_Witness ==
    /\ GuessAccepted(last)
    /\ overlaps = 1
    /\ reqs = EmptyBag
    /\ DOMAIN games = {1, 2}
    /\ games[1].answer = <<"a", "b">>
    /\ games[2].answer = <<"a", "7">>
    /\ last.req.gameId = 2
    /\ last.req.body.letter = "a"
    /\ games[1].level = games[2].level
    /\ games[1].guessedLetters = <<"t", "a">>
    /\ games[2].guessedLetters = <<"t", "a">>
    /\ last.game.currentProgress = <<"a", "_">>
    /\ GameView(games[1]) = GameView(games[2])

\* the request that the step admitted, if it admitted one: its copy of the
\* game is the stored game
LoadsStored ==
    BagCardinality(reqs') > BagCardinality(reqs) =>
        \E req \in InFlight' :
            /\ reqs' = reqs (+) SetToBag({req})
            /\ req.gameId \in DOMAIN games
            /\ req.game = games[req.gameId]
            /\ games' = games

\* the stored game g was written by the step: the step is the handler of
\* one guess request that was in flight with a copy of the game, and the
\* document written is that copy after this one guess, with the four fields
\* as the response of this request has them
WrittenByOneGuess(g) ==
    /\ GuessAccepted(last')
    /\ last'.req.gameId = g
    /\ \E req0 \in InFlight :
         /\ reqs' = reqs (-) SetToBag({req0})
         /\ req0.kind = "guess"
         /\ req0.gameId = g
         /\ req0.game = last'.req.game
         /\ ParsedLetter(req0.body.letter) = last'.req.body.letter
    /\ LET loaded == last'.req.game
           letter == last'.req.body.letter
           written == games'[g]
       IN  /\ written = AfterGuess(loaded, letter)
           /\ written.guessedLetters = Append(loaded.guessedLetters, letter)
           /\ written.attempts = last'.game.attempts
           /\ written.currentProgress = last'.game.currentProgress
           /\ written.gameOver = last'.game.gameOver
           /\ written.guessedLetters = last'.game.guessedLetters
           /\ written.attempts = 6 - Cardinality(MissesOf(written))
           /\ \A h \in DOMAIN games \ {g} :
                h \in DOMAIN games' /\ games'[h] = games[h]

\* C37 (atomic snapshots under races): however guess requests for the same
\* game interleave, every request in flight holds a copy of the game that
\* was the stored game when it was loaded, and every change of a stored
\* game is the write of one guess request: the copy of that request after
\* its one guess, the four fields currentProgress, attempts, gameOver and
\* guessedLetters written together, so that no stored state mixes fields
\* computed by two requests.
C37_AtomicSnapshots ==
    [][ /\ LoadsStored
        /\ BagCardinality(reqs') <= BagCardinality(reqs) =>
             InFlight' \subseteq InFlight
        /\ \A g \in DOMAIN games \cap DOMAIN games' :
             games'[g] # games[g] => WrittenByOneGuess(g) ]_vars

\* a guess was saved while another guess request, loaded from the same
\* stored state, is still in flight with a copy that is now stale
C37_Witness ==
    /\ GuessAccepted(last)
    /\ last.req.gameId \in DOMAIN games
    /\ StoredAgrees(last)
    /\ \E req \in InFlight :
         /\ req.kind = "guess"
         /\ req.gameId = last.req.gameId
         /\ req.game = last.req.game
         /\ req.game # games[req.gameId]
         /\ ValidLetter(req.body.letter)
         /\ ParsedLetter(req.body.letter) # last.req.body.letter
         /\ Len(req.game.guessedLetters) = 1

\* C38 (success implies persisted): whenever a guess request is answered
\* with 200, right after the handler's save step the store holds the game
\* with exactly the returned progress, attempts, over and guessedLetters,
\* also when a delete request for the game was processed between the load
\* and the save of the guess.
C38_SuccessPersisted ==
    GuessAccepted(last)
    => /\ last.req.gameId \in DOMAIN games
       /\ LET stored == games[last.req.gameId]
          IN  /\ stored.currentProgress = last.game.currentProgress
              /\ stored.attempts = last.game.attempts
              /\ stored.gameOver = last.game.gameOver
              /\ stored.guessedLetters = last.game.guessedLetters

\* authenticateToken answered the exchange x because getGameById failed
LookupFailed(x) ==
    /\ x.kind = "auth"
    /\ "thrown" \in DOMAIN x
    /\ x.thrown.thrownBy = "getGameById"

\* the request was answered 403 by the middleware: the token had been
\* verified, next() was not called, req.game is unset and no request was
\* passed on to a handler
AnsweredForbidden(x) ==
    /\ x.status = 403
    /\ "verifyToken" \in x.calls
    /\ x.next = << >>
    /\ "game" \notin DOMAIN x.req
    /\ reqs' = reqs
    /\ games' = games

\* C39 (storage failure during authentication), as the program has it: when
\* getGameById fails with an error after the token was verified, the request
\* is answered 403 with that error's message, or with 'Invalid token' when
\* the error has no message; next() is not called and req.game stays unset.
C39_LookupFailure ==
    [][ LookupFailed(last') =>
          /\ AnsweredForbidden(last')
          /\ last'.error = IF last'.thrown.message # ""
                           THEN last'.thrown.message
                           ELSE "Invalid token" ]_vars

\* C39 as stated: the response always carries the message of the error.
C39_Original ==
    [][ LookupFailed(last') =>
          /\ AnsweredForbidden(last')
          /\ last'.error = last'.thrown.message ]_vars

\* a guess request with the token of a stored game was answered 403 with
\* the message of the error of the lookup
C39_Witness ==
    /\ LookupFailed(last)
    /\ last.status = 403
    /\ last.error = "Database connection failed"
    /\ last.req.gameId \in DOMAIN games
    /\ last.req.token = GenerateToken(last.req.gameId)
    /\ reqs # EmptyBag

====
